---- MODULE Spec2Model ----
(***************************************************************************)
(* Timeline reconciliation of the dengue forecast dashboard.               *)
(*                                                                         *)
(* ForecastChart (src/unnamed/part_000, lines 115-227) merges the history, *)
(* pending_weeks and forecast collections of a ForecastResponse into one   *)
(* row per date key, sorts the rows by parsed time, runs the manual        *)
(* connector pass and derives the compact window.  The memo body is        *)
(* modelled step by step: one action per forEach / sort / filter block,    *)
(* and one action per iteration of the connector scan.                     *)
(***************************************************************************)
EXTENDS Integers, Sequences, FiniteSets, TLC

VARIABLES
  history,        \* data.history
  pending_weeks,  \* data.pending_weeks
  forecast,       \* data.forecast
  historyWindow,  \* prop historyWindow
  forecastWindow, \* prop forecastWindow
  rows,           \* rowsMap.values() in insertion order, then the sorted array
  idx,            \* index of the connector scan (1-based)
  allRows,        \* memo result allRows
  compactRows,    \* memo result compactRows
  pc,             \* position inside the memo body
  apiData,        \* the response the predict request settled with
  forecastState,  \* DistrictDetailPanel state "forecast" (a ForecastState)
  district,       \* prop district: "none" (null) or a district id
  apiBaseUrl,     \* prop apiBaseUrl: "" or a URL
  requests,       \* the fetch calls that have not settled yet
  requestLog,     \* endpoint and triggering event of every request issued
  issued,         \* number of fetch-action invocations so far (request ids)
  triggers,       \* number of user events so far
  settled,        \* the request that settled last, with its response
  forecastWriter, \* id of the fetchForecast invocation that last wrote forecast
  lastPredict,    \* id of the fetchForecast invocation started last
  observationsLoading,
  observationsError,
  manualObservations,
  manualSubmitting,
  manualSubmitMessage,
  manualSubmitError,
  manualRowsReady \* manualRowsReadyCount > 0

chartVars == <<history, pending_weeks, forecast, historyWindow, forecastWindow,
               rows, idx, allRows, compactRows, pc>>

chartVarsButPc == <<history, pending_weeks, forecast, historyWindow, forecastWindow,
                    rows, idx, allRows, compactRows>>

panelVars == <<apiData, forecastState>>

requestVars == <<district, apiBaseUrl, requests, requestLog, issued, triggers, settled,
                 forecastWriter, lastPredict,
                 observationsLoading, observationsError, manualObservations,
                 manualSubmitting, manualSubmitMessage, manualSubmitError,
                 manualRowsReady>>

vars == <<chartVars, panelVars, requestVars>>

(***************************************************************************)
(* Bounds of the model.                                                    *)
(***************************************************************************)
MaxPoints == 3          \* total number of points in the three collections
MaxHistoryWindow == 2   \* historyWindow ranges over 1..MaxHistoryWindow
MaxForecastWindow == 1  \* forecastWindow ranges over 0..MaxForecastWindow

(***************************************************************************)
(* Defaults of the window props (lines 53-54); DistrictDetailPanel passes  *)
(* the same two numbers.                                                   *)
(***************************************************************************)
DEFAULT_HISTORY_WINDOW == 15
DEFAULT_FORECAST_WINDOW == 2

\* the values the props take in the model: the small ones and the defaults
HistoryWindows == (1..MaxHistoryWindow) \cup {DEFAULT_HISTORY_WINDOW}
ForecastWindows == (0..MaxForecastWindow) \cup {DEFAULT_FORECAST_WINDOW}

(***************************************************************************)
(* JavaScript values that flow through the numeric channels.               *)
(* null and undefined are both "== null"; NaN is a number that is not      *)
(* finite.                                                                 *)
(***************************************************************************)
Null == [t |-> "null"]
NaN == [t |-> "NaN"]
Num(n) == [t |-> "number", v |-> n]

\* value == null / value != null
IsNull(x) == x.t = "null"
\* typeof x === 'number' && Number.isFinite(x)
IsFiniteNumber(x) == x.t = "number"
\* a ?? b
Coalesce(a, b) == IF IsNull(a) THEN b ELSE a

(***************************************************************************)
(* Date keys are strings; ordering uses new Date(key).getTime().           *)
(* The time is counted in days since the epoch (getTime() / 86400000).     *)
(* "2024-01-08" and "2024-01-08T00:00:00Z" are two keys of one instant.    *)
(* Every key of the model is a valid date, so getTime() is never NaN.      *)
(***************************************************************************)
DateStrings == {"2024-01-01", "2024-01-08", "2024-01-08T00:00:00Z", "2024-01-15"}

DateTime(ds) ==
  CASE ds = "2024-01-01" -> 19723
    [] ds = "2024-01-08" -> 19730
    [] ds = "2024-01-08T00:00:00Z" -> 19730
    [] ds = "2024-01-15" -> 19737

HistorySources == {"observed", "manual", "synthetic", "seasonal_clone"}

\* One case count per source tag, one per collection: a value found in a
\* row identifies the write that produced it.
HistoryY(source) ==
  CASE source = "observed" -> 1
    [] source = "manual" -> 2
    [] source = "synthetic" -> 3
    [] OTHER -> 4

HistoryPoints ==
  {[ds |-> d, y |-> Num(HistoryY(s)), source |-> s] : d \in DateStrings, s \in HistorySources}

PendingPoints == {[ds |-> d, prediction |-> Num(5)] : d \in DateStrings}

ForecastPoints ==
  {[ds |-> d, y_pred |-> Num(6), actual |-> a] : d \in DateStrings, a \in {Null, NaN, Num(7)}}

SeqsUpTo(S, n) == UNION {[1..k -> S] : k \in 0..n}

(***************************************************************************)
(* rowsMap and getRow (lines 122-137).  The map is kept as the sequence of *)
(* its values in insertion order, which is the order of Map.values().      *)
(* An absent actualSource / filledSource is "undefined"; an absent         *)
(* isPending is falsy and kept as FALSE.                                   *)
(***************************************************************************)
NewRow(date) ==
  [date |-> date,
   actualReal |-> Null,
   filledValue |-> Null,
   filledLineValue |-> Null,
   forecastValue |-> Null,
   actualSource |-> "undefined",
   filledSource |-> "undefined",
   hasHistory |-> FALSE,
   hasForecast |-> FALSE,
   isPending |-> FALSE,
   manualConnector |-> Null]

HasRow(map, date) == \E i \in 1..Len(map) : map[i].date = date

RowIndex(map, date) == CHOOSE i \in 1..Len(map) : map[i].date = date

\* getRow: the map after the call (a fresh row is appended for a new key)
GetRow(map, date) == IF HasRow(map, date) THEN map ELSE Append(map, NewRow(date))

\* data.history.forEach callback (lines 139-150)
HistoryWrite(map, point) ==
  LET m == GetRow(map, point.ds)
      i == RowIndex(m, point.ds)
      r == [m[i] EXCEPT !.hasHistory = TRUE]
  IN  IF point.source = "observed" \/ point.source = "manual"
      THEN [m EXCEPT ![i] = [r EXCEPT !.actualReal = point.y,
                                      !.actualSource = point.source]]
      ELSE [m EXCEPT ![i] = [r EXCEPT !.filledValue = point.y,
                                      !.filledLineValue = point.y,
                                      !.filledSource = point.source]]

\* PendingWrite with a fill already present left alone (first write wins)
PendingWriteKeepsFill(map, point) ==
  LET m == GetRow(map, point.ds)
      i == RowIndex(m, point.ds)
  IN  IF IsNull(m[i].filledValue)
      THEN [m EXCEPT ![i] = [m[i] EXCEPT !.filledValue = point.prediction,
                                        !.filledLineValue = point.prediction,
                                        !.filledSource = "pending",
                                        !.isPending = TRUE]]
      ELSE [m EXCEPT ![i] = [m[i] EXCEPT !.isPending = TRUE]]

\* data.pending_weeks.forEach callback (lines 152-158)
PendingWrite(map, point) ==
  LET m == GetRow(map, point.ds)
      i == RowIndex(m, point.ds)
  IN  [m EXCEPT ![i] = [m[i] EXCEPT !.filledValue = point.prediction,
                                    !.filledLineValue = point.prediction,
                                    !.filledSource = "pending",
                                    !.isPending = TRUE]]

\* ForecastWrite without the "row.actualReal == null" guard
ForecastWriteOverwritesActual(map, point) ==
  LET m == GetRow(map, point.ds)
      i == RowIndex(m, point.ds)
      r == [m[i] EXCEPT !.hasForecast = TRUE, !.forecastValue = point.y_pred]
  IN  IF IsFiniteNumber(point.actual)
      THEN [m EXCEPT ![i] = [r EXCEPT !.actualReal = point.actual,
                                      !.actualSource = "observed"]]
      ELSE [m EXCEPT ![i] = r]

\* ForecastWrite without the Number.isFinite test (typeof 'number' alone)
ForecastWriteAcceptsNaN(map, point) ==
  LET m == GetRow(map, point.ds)
      i == RowIndex(m, point.ds)
      r == [m[i] EXCEPT !.hasForecast = TRUE, !.forecastValue = point.y_pred]
  IN  IF IsNull(r.actualReal) /\ ~IsNull(point.actual)
      THEN [m EXCEPT ![i] = [r EXCEPT !.actualReal = point.actual,
                                      !.actualSource = "observed"]]
      ELSE [m EXCEPT ![i] = r]

\* data.forecast.forEach callback (lines 160-168)
ForecastWrite(map, point) ==
  LET m == GetRow(map, point.ds)
      i == RowIndex(m, point.ds)
      r == [m[i] EXCEPT !.hasForecast = TRUE, !.forecastValue = point.y_pred]
  IN  IF IsNull(r.actualReal) /\ IsFiniteNumber(point.actual)
      THEN [m EXCEPT ![i] = [r EXCEPT !.actualReal = point.actual,
                                      !.actualSource = "observed"]]
      ELSE [m EXCEPT ![i] = r]

RECURSIVE HistoryForEach(_, _)
HistoryForEach(map, points) ==
  IF points = <<>> THEN map
  ELSE HistoryForEach(HistoryWrite(map, Head(points)), Tail(points))

RECURSIVE PendingForEach(_, _)
PendingForEach(map, points) ==
  IF points = <<>> THEN map
  ELSE PendingForEach(PendingWrite(map, Head(points)), Tail(points))

RECURSIVE ForecastForEach(_, _)
ForecastForEach(map, points) ==
  IF points = <<>> THEN map
  ELSE ForecastForEach(ForecastWrite(map, Head(points)), Tail(points))

(***************************************************************************)
(* Array.from(rowsMap.values()).sort(...) (line 170).  The comparator is   *)
(* the difference of the parsed times; Array.prototype.sort is stable, so  *)
(* rows of equal time keep their insertion order.                          *)
(***************************************************************************)
\* insert row r behind every row whose time is not greater than r's
RECURSIVE InsertByTime(_, _)
InsertByTime(sorted, r) ==
  IF sorted = <<>> THEN <<r>>
  ELSE IF DateTime(Head(sorted).date) - DateTime(r.date) <= 0
       THEN <<Head(sorted)>> \o InsertByTime(Tail(sorted), r)
       ELSE <<r>> \o sorted

RECURSIVE SortByTimeFrom(_, _)
SortByTimeFrom(sorted, rest) ==
  IF rest = <<>> THEN sorted
  ELSE SortByTimeFrom(InsertByTime(sorted, Head(rest)), Tail(rest))

SortRows(map) == SortByTimeFrom(<<>>, map)

(***************************************************************************)
(* Manual-connector pass (lines 172-193).                                  *)
(***************************************************************************)
\* linkNeighbor with the priority filledValue ?? actualReal ?? forecastValue
LinkNeighborFillFirst(rs, neighborIdx, suppressForwardFill) ==
  IF neighborIdx < 1 \/ neighborIdx > Len(rs) THEN rs
  ELSE LET neighbor == rs[neighborIdx]
           value == Coalesce(neighbor.filledValue,
                             Coalesce(neighbor.actualReal, neighbor.forecastValue))
       IN  IF ~IsNull(neighbor.manualConnector) THEN rs
           ELSE IF IsNull(value) THEN rs
           ELSE [rs EXCEPT ![neighborIdx] =
                   [neighbor EXCEPT
                      !.manualConnector = value,
                      !.filledLineValue =
                         IF suppressForwardFill /\ ~IsNull(neighbor.filledLineValue)
                         THEN Null ELSE neighbor.filledLineValue]]

\* linkNeighbor without lines 186-188: the neighbour's filledLineValue stays
LinkNeighborNeverSuppresses(rs, neighborIdx, suppressForwardFill) ==
  IF neighborIdx < 1 \/ neighborIdx > Len(rs) THEN rs
  ELSE LET neighbor == rs[neighborIdx]
           value == Coalesce(neighbor.actualReal,
                             Coalesce(neighbor.filledValue, neighbor.forecastValue))
       IN  IF ~IsNull(neighbor.manualConnector) THEN rs
           ELSE IF IsNull(value) THEN rs
           ELSE [rs EXCEPT ![neighborIdx] = [neighbor EXCEPT !.manualConnector = value]]

\* linkNeighbor that clears the neighbour's filledLineValue on both sides
LinkNeighborAlwaysSuppresses(rs, neighborIdx, suppressForwardFill) ==
  IF neighborIdx < 1 \/ neighborIdx > Len(rs) THEN rs
  ELSE LET neighbor == rs[neighborIdx]
           value == Coalesce(neighbor.actualReal,
                             Coalesce(neighbor.filledValue, neighbor.forecastValue))
       IN  IF ~IsNull(neighbor.manualConnector) THEN rs
           ELSE IF IsNull(value) THEN rs
           ELSE [rs EXCEPT ![neighborIdx] =
                   [neighbor EXCEPT !.manualConnector = value,
                                    !.filledLineValue = Null]]

\* linkNeighbor with the priority forecastValue ?? actualReal ?? filledValue
LinkNeighborForecastFirst(rs, neighborIdx, suppressForwardFill) ==
  IF neighborIdx < 1 \/ neighborIdx > Len(rs) THEN rs
  ELSE LET neighbor == rs[neighborIdx]
           value == Coalesce(neighbor.forecastValue,
                             Coalesce(neighbor.actualReal, neighbor.filledValue))
       IN  IF ~IsNull(neighbor.manualConnector) THEN rs
           ELSE IF IsNull(value) THEN rs
           ELSE [rs EXCEPT ![neighborIdx] =
                   [neighbor EXCEPT
                      !.manualConnector = value,
                      !.filledLineValue =
                         IF suppressForwardFill /\ ~IsNull(neighbor.filledLineValue)
                         THEN Null ELSE neighbor.filledLineValue]]

\* linkNeighbor (lines 176-189); an index outside the array reads undefined
LinkNeighbor(rs, neighborIdx, suppressForwardFill) ==
  IF neighborIdx < 1 \/ neighborIdx > Len(rs) THEN rs
  ELSE LET neighbor == rs[neighborIdx]
           value == Coalesce(neighbor.actualReal,
                             Coalesce(neighbor.filledValue, neighbor.forecastValue))
       IN  IF ~IsNull(neighbor.manualConnector) THEN rs
           ELSE IF IsNull(value) THEN rs
           ELSE [rs EXCEPT ![neighborIdx] =
                   [neighbor EXCEPT
                      !.manualConnector = value,
                      !.filledLineValue =
                         IF suppressForwardFill /\ ~IsNull(neighbor.filledLineValue)
                         THEN Null ELSE neighbor.filledLineValue]]

\* line 173 without the source test: every row with an actual value
IsManualRowAnySource(row) == ~IsNull(row.actualReal)

\* the condition of line 173
IsManualRow(row) == row.actualSource = "manual" /\ ~IsNull(row.actualReal)

\* the iteration without line 175: the row's own filledLineValue is kept
ConnectorVisitKeepsFillLine(rs, i) ==
  IF IsManualRow(rs[i])
  THEN LET own == [rs EXCEPT ![i] = [rs[i] EXCEPT !.manualConnector = rs[i].actualReal]]
       IN  LinkNeighbor(LinkNeighbor(own, i - 1, FALSE), i + 1, TRUE)
  ELSE rs

\* the iteration with line 175 clearing filledValue next to filledLineValue
ConnectorVisitClearsFillValue(rs, i) ==
  IF IsManualRow(rs[i])
  THEN LET own == [rs EXCEPT ![i] = [rs[i] EXCEPT !.manualConnector = rs[i].actualReal,
                                                  !.filledValue = Null,
                                                  !.filledLineValue = Null]]
       IN  LinkNeighbor(LinkNeighbor(own, i - 1, FALSE), i + 1, TRUE)
  ELSE rs

\* the iteration with the two flags of lines 190-191 exchanged
ConnectorVisitSwappedFlags(rs, i) ==
  IF IsManualRow(rs[i])
  THEN LET own == [rs EXCEPT ![i] = [rs[i] EXCEPT !.manualConnector = rs[i].actualReal,
                                                  !.filledLineValue = Null]]
       IN  LinkNeighbor(LinkNeighbor(own, i - 1, TRUE), i + 1, FALSE)
  ELSE rs

\* one iteration of rows.forEach((row, idx) => ...) (lines 172-193)
ConnectorVisit(rs, i) ==
  IF IsManualRow(rs[i])
  THEN LET own == [rs EXCEPT ![i] = [rs[i] EXCEPT !.manualConnector = rs[i].actualReal,
                                                  !.filledLineValue = Null]]
       IN  LinkNeighbor(LinkNeighbor(own, i - 1, FALSE), i + 1, TRUE)
  ELSE rs

RECURSIVE ConnectorPassFrom(_, _)
ConnectorPassFrom(rs, i) ==
  IF i > Len(rs) THEN rs ELSE ConnectorPassFrom(ConnectorVisit(rs, i), i + 1)

ConnectorPass(rs) == ConnectorPassFrom(rs, 1)

\* the rows of the memo (lines 122-193) as a function of the three collections
MergeRows(h, p, f) ==
  ConnectorPass(SortRows(ForecastForEach(PendingForEach(HistoryForEach(<<>>, h), p), f)))

(***************************************************************************)
(* Window selection (lines 195-224).                                       *)
(***************************************************************************)
\* row.hasHistory || row.isPending (line 195)
IsTimelineRow(row) == row.hasHistory \/ row.isPending

\* rows.filter(...) keeps the order of the array
TimelineRows(rs) == SelectSeq(rs, IsTimelineRow)

\* the tail with "forecastIncluded <= forecastWindow" (one row too many)
RECURSIVE ForecastTailOffByOne(_, _, _)
ForecastTailOffByOne(rs, windowEndTime, room) ==
  IF rs = <<>> THEN <<>>
  ELSE IF DateTime(Head(rs).date) > windowEndTime
          /\ ~IsNull(Head(rs).forecastValue) /\ room >= 0
       THEN <<Head(rs)>> \o ForecastTailOffByOne(Tail(rs), windowEndTime, room - 1)
       ELSE ForecastTailOffByOne(Tail(rs), windowEndTime, room)

\* lines 213-221: the first forecastWindow rows after windowEndTime that
\* carry a forecastValue
RECURSIVE ForecastTail(_, _, _)
ForecastTail(rs, windowEndTime, room) ==
  IF rs = <<>> THEN <<>>
  ELSE IF DateTime(Head(rs).date) > windowEndTime
          /\ ~IsNull(Head(rs).forecastValue) /\ room > 0
       THEN <<Head(rs)>> \o ForecastTail(Tail(rs), windowEndTime, room - 1)
       ELSE ForecastTail(Tail(rs), windowEndTime, room)

\* compactRows with an empty result when no row is an anchor
CompactRowsEmptyWithoutAnchor(rs, hw, fw) ==
  LET timelineRows == TimelineRows(rs)
  IN  IF Len(timelineRows) = 0 THEN <<>>
      ELSE LET lastTimelineDate == timelineRows[Len(timelineRows)].date
               windowStartTimeline ==
                 IF Len(timelineRows) > hw
                 THEN timelineRows[Len(timelineRows) - hw + 1].date
                 ELSE timelineRows[1].date
               windowStartTime == DateTime(windowStartTimeline)
               windowEndTime == DateTime(lastTimelineDate)
               InWindow(row) == DateTime(row.date) >= windowStartTime
                                /\ DateTime(row.date) <= windowEndTime
               compactBase == SelectSeq(rs, InWindow)
               forecastTail == ForecastTail(rs, windowEndTime, fw)
               compact == compactBase \o forecastTail
           IN  IF Len(compact) > 0 THEN compact ELSE rs

\* compactRows that applies forecastWindow also when no row is an anchor
CompactRowsWindowWithoutAnchor(rs, hw, fw) ==
  LET timelineRows == TimelineRows(rs)
  IN  IF Len(timelineRows) = 0 THEN SubSeq(rs, 1, IF fw < Len(rs) THEN fw ELSE Len(rs))
      ELSE LET lastTimelineDate == timelineRows[Len(timelineRows)].date
               windowStartTimeline ==
                 IF Len(timelineRows) > hw
                 THEN timelineRows[Len(timelineRows) - hw + 1].date
                 ELSE timelineRows[1].date
               windowStartTime == DateTime(windowStartTimeline)
               windowEndTime == DateTime(lastTimelineDate)
               InWindow(row) == DateTime(row.date) >= windowStartTime
                                /\ DateTime(row.date) <= windowEndTime
               compactBase == SelectSeq(rs, InWindow)
               forecastTail == ForecastTail(rs, windowEndTime, fw)
               compact == compactBase \o forecastTail
           IN  IF Len(compact) > 0 THEN compact ELSE rs

\* compactRows (lines 195-224); historyWindow > 0
CompactRows(rs, hw, fw) ==
  LET timelineRows == TimelineRows(rs)
  IN  IF Len(timelineRows) = 0 THEN rs
      ELSE LET lastTimelineDate == timelineRows[Len(timelineRows)].date
               windowStartTimeline ==
                 IF Len(timelineRows) > hw
                 THEN timelineRows[Len(timelineRows) - hw + 1].date
                 ELSE timelineRows[1].date
               windowStartTime == DateTime(windowStartTimeline)
               windowEndTime == DateTime(lastTimelineDate)
               InWindow(row) == DateTime(row.date) >= windowStartTime
                                /\ DateTime(row.date) <= windowEndTime
               compactBase == SelectSeq(rs, InWindow)
               forecastTail == ForecastTail(rs, windowEndTime, fw)
               compact == compactBase \o forecastTail
           IN  IF Len(compact) > 0 THEN compact ELSE rs

(***************************************************************************)
(* The memo body as a state machine.                                       *)
(***************************************************************************)
\* the useState initial values of the panel (lines 84-99) next to the props
PanelAtRest(d, url) ==
  /\ district = d
  /\ apiBaseUrl = url
  /\ requests = {}
  /\ requestLog = {}
  /\ issued = 0
  /\ triggers = 0
  /\ settled = Null
  /\ forecastWriter = 0
  /\ lastPredict = 0
  /\ observationsLoading = FALSE
  /\ observationsError = Null
  /\ manualObservations = <<>>
  /\ manualSubmitting = FALSE
  /\ manualSubmitMessage = Null
  /\ manualSubmitError = Null
  /\ manualRowsReady = FALSE

Init ==
  /\ history = <<>>
  /\ pending_weeks = <<>>
  /\ forecast = <<>>
  /\ historyWindow = DEFAULT_HISTORY_WINDOW
  /\ forecastWindow = DEFAULT_FORECAST_WINDOW
  /\ rows = <<>>
  /\ idx = 1
  /\ allRows = <<>>
  /\ compactRows = <<>>
  /\ pc = "history"
  /\ apiData = Null
  /\ forecastState = [loading |-> FALSE, error |-> Null, data |-> Null]
  /\ PanelAtRest("d1", "u1")

\* lines 139-150 on some data.history
MergeHistory ==
  /\ pc = "history"
  /\ UNCHANGED <<panelVars, requestVars>>
  /\ \E h \in SeqsUpTo(HistoryPoints, MaxPoints) :
       /\ history' = h
       /\ rows' = HistoryForEach(rows, h)
  /\ pc' = "pending"
  /\ UNCHANGED <<pending_weeks, forecast, historyWindow, forecastWindow, idx,
                 allRows, compactRows>>

\* lines 152-158 on some data.pending_weeks
MergePending ==
  /\ pc = "pending"
  /\ UNCHANGED <<panelVars, requestVars>>
  /\ \E p \in SeqsUpTo(PendingPoints, MaxPoints - Len(history)) :
       /\ pending_weeks' = p
       /\ rows' = PendingForEach(rows, p)
  /\ pc' = "forecast"
  /\ UNCHANGED <<history, forecast, historyWindow, forecastWindow, idx,
                 allRows, compactRows>>

\* lines 160-168 on some data.forecast
MergeForecast ==
  /\ pc = "forecast"
  /\ UNCHANGED <<panelVars, requestVars>>
  /\ \E f \in SeqsUpTo(ForecastPoints, MaxPoints - Len(history) - Len(pending_weeks)) :
       /\ forecast' = f
       /\ rows' = ForecastForEach(rows, f)
  /\ pc' = "sort"
  /\ UNCHANGED <<history, pending_weeks, historyWindow, forecastWindow, idx,
                 allRows, compactRows>>

\* line 170
Sort ==
  /\ pc = "sort"
  /\ UNCHANGED <<panelVars, requestVars>>
  /\ rows' = SortRows(rows)
  /\ idx' = 1
  /\ pc' = "connect"
  /\ UNCHANGED <<history, pending_weeks, forecast, historyWindow, forecastWindow,
                 allRows, compactRows>>

\* one iteration of the scan of lines 172-193
ConnectorStep ==
  /\ pc = "connect"
  /\ UNCHANGED <<panelVars, requestVars>>
  /\ idx <= Len(rows)
  /\ rows' = ConnectorVisit(rows, idx)
  /\ idx' = idx + 1
  /\ UNCHANGED <<history, pending_weeks, forecast, historyWindow, forecastWindow,
                 allRows, compactRows, pc>>

\* lines 195-224 for some historyWindow / forecastWindow props
SelectWindow ==
  /\ pc = "connect"
  /\ UNCHANGED <<panelVars, requestVars>>
  /\ idx > Len(rows)
  /\ \E hw \in HistoryWindows, fw \in ForecastWindows :
       /\ historyWindow' = hw
       /\ forecastWindow' = fw
       /\ compactRows' = CompactRows(rows, hw, fw)
  /\ allRows' = rows
  /\ pc' = "done"
  /\ UNCHANGED <<history, pending_weeks, forecast, rows, idx>>

Next ==
  \/ MergeHistory
  \/ MergePending
  \/ MergeForecast
  \/ Sort
  \/ ConnectorStep
  \/ SelectWindow

Spec == Init /\ [][Next]_vars

(***************************************************************************)
(* The boundary of the predict response: fetchForecast of                  *)
(* DistrictDetailPanel.tsx (lines 197-285).                                *)
(*                                                                         *)
(* A value parsed from JSON is null (also standing for an absent field),   *)
(* a finite number, Infinity (JSON.parse of 1e999), or a string.  An error *)
(* message is a string value.                                              *)
(***************************************************************************)
Infinity == [t |-> "Infinity"]
Str(s) == [t |-> "string", s |-> s]

\* Number(s) for the strings of the model
NumberOfString(s) ==
  CASE s = "2" -> Num(2)
    [] s = "" -> Num(0)
    [] s = "1e999" -> Infinity
    [] OTHER -> NaN

\* toNumeric that accepts every value of type number
ToNumericWithoutFiniteTest(value) ==
  LET parsed == IF value.t = "string" THEN NumberOfString(value.s) ELSE value
  IN  IF parsed.t \in {"number", "NaN", "Infinity"} THEN parsed ELSE Null

\* toNumeric (lines 237-243)
ToNumeric(value) ==
  LET parsed == IF value.t = "string" THEN NumberOfString(value.s) ELSE value
  IN  IF IsFiniteNumber(parsed) THEN parsed ELSE Null

MaxItems == 2           \* total number of items in the arrays of a response

\* the values a numeric field of the response takes
RawValues == {Num(1), Str("2"), Infinity, Str("abc"), Null}

\* the values of the optional field "actual" of a forecast item
RawActuals == {Null, Num(7), Infinity, Str("abc")}

BoundaryDates == {"2024-01-01", "2024-01-08"}

\* item.source of a history item; "undefined" is the absent field
RawSources == {"undefined", "manual", "synthetic"}

\* an array element is an object or the JSON value null
RawHistoryItems ==
  {[t |-> "object", ds |-> d, cases |-> c, source |-> src] :
     d \in BoundaryDates, c \in RawValues, src \in RawSources} \cup {Null}

RawPendingItems ==
  {[t |-> "object", ds |-> d, prediction |-> v] :
     d \in BoundaryDates, v \in RawValues} \cup {Null}

RawForecastItems ==
  {[t |-> "object", ds |-> d, prediction |-> v, actual |-> a] :
     d \in BoundaryDates, v \in RawValues, a \in RawActuals} \cup {Null}

\* a collection field of the body: absent, an object that is no array, or an
\* array of at most n items
Undefined == [t |-> "undefined"]
NonArray == [t |-> "object"]
ArrayOf(items) == [t |-> "array", items |-> items]
Collections(S, n) == {Undefined, NonArray} \cup {ArrayOf(q) : q \in SeqsUpTo(S, n)}

\* Array.isArray(x)
IsArray(x) == x.t = "array"

ItemCount(c) == IF IsArray(c) THEN Len(c.items) ELSE 0

\* an object body
ObjectBody(h, f, p) == [t |-> "object", history |-> h, forecast |-> f, pending_weeks |-> p]

\* how the request settles without a body: fetch rejects, the status is not
\* ok, or response.json() rejects
FailedResponses == {[kind |-> "network_error"], [kind |-> "http_error"], [kind |-> "not_json"]}

\* response.json() resolves to body
JsonResponse(body) == [kind |-> "json", body |-> body]

\* item.source ?? 'observed' (line 254)
SourceOrObserved(src) == IF src = "undefined" THEN "observed" ELSE src

\* the callbacks of the three map calls (lines 251-255, 258-263, 266-269)
TransformHistoryItem(item) ==
  [ds |-> item.ds,
   y |-> Coalesce(ToNumeric(item.cases), Num(0)),
   source |-> SourceOrObserved(item.source)]

TransformForecastItem(item) ==
  [ds |-> item.ds,
   y_pred |-> Coalesce(ToNumeric(item.prediction), Num(0)),
   actual |-> ToNumeric(item.actual)]

TransformPendingItem(item) ==
  [ds |-> item.ds,
   prediction |-> Coalesce(ToNumeric(item.prediction), Num(0))]

\* reading item.ds of the array element null throws a TypeError
HasNullItem(c) == IsArray(c) /\ \E i \in 1..Len(c.items) : IsNull(c.items[i])

\* reading a property of the body null throws; so does the map callback on a
\* null element
TransformThrows(body) ==
  \/ IsNull(body)
  \/ HasNullItem(body.history)
  \/ HasNullItem(body.forecast)
  \/ HasNullItem(body.pending_weeks)

\* Array.isArray(apiData.x) ? apiData.x.map(...) : [] (lines 250-270)
TransformedHistory(c) ==
  IF IsArray(c) THEN [i \in 1..Len(c.items) |-> TransformHistoryItem(c.items[i])] ELSE <<>>

TransformedForecast(c) ==
  IF IsArray(c) THEN [i \in 1..Len(c.items) |-> TransformForecastItem(c.items[i])] ELSE <<>>

TransformedPending(c) ==
  IF IsArray(c) THEN [i \in 1..Len(c.items) |-> TransformPendingItem(c.items[i])] ELSE <<>>

\* "transformed" (lines 244-275); districtId is district.district_id_txt_clean
\* of the closure
Transformed(body, districtId) ==
  [t |-> "object",
   district_id_txt_clean |-> districtId,
   history |-> TransformedHistory(body.history),
   forecast |-> TransformedForecast(body.forecast),
   pending_weeks |-> TransformedPending(body.pending_weeks)]

\* line 209 written as an update of the previous state: error and data stay
LoadingForecastKeepsPrevious == [forecastState EXCEPT !.loading = TRUE]

\* the ForecastState values written by fetchForecast
LoadingForecast == [loading |-> TRUE, error |-> Null, data |-> Null]
\* the catch of fetchForecast leaving the loading flag set
FailedForecastStillLoading(message) == [loading |-> TRUE, error |-> Str(message), data |-> Null]
FailedForecast(message) == [loading |-> FALSE, error |-> Str(message), data |-> Null]
LoadedForecast(data) == [loading |-> FALSE, error |-> Null, data |-> data]

\* the state set when the awaited request settles (lines 232-284)
FetchForecastOutcome(response, districtId) ==
  CASE response.kind = "network_error" -> FailedForecast("Failed to fetch")
    [] response.kind = "http_error" -> FailedForecast("API error")
    [] response.kind = "not_json" -> FailedForecast("Unexpected token")
    [] OTHER ->
         IF TransformThrows(response.body)
         THEN FailedForecast("Cannot read properties of null")
         ELSE LoadedForecast(Transformed(response.body, districtId))

(***************************************************************************)
(* One predict round trip of the panel with a district selected and an API *)
(* URL configured: the click, the settling of fetch() and of the body read *)
(* and the chart rendered from forecast.data (line 470, lines 568-572).    *)
(***************************************************************************)
BoundaryInit ==
  /\ history = <<>>
  /\ pending_weeks = <<>>
  /\ forecast = <<>>
  /\ historyWindow = DEFAULT_HISTORY_WINDOW
  /\ forecastWindow = DEFAULT_FORECAST_WINDOW
  /\ rows = <<>>
  /\ idx = 1
  /\ allRows = <<>>
  /\ compactRows = <<>>
  /\ pc = "idle"
  /\ apiData = Null
  /\ forecastState = [loading |-> FALSE, error |-> Null, data |-> Null]
  /\ PanelAtRest("d1", "u1")

\* the fetch-forecast button (lines 429-430) with apiBaseUrl and district set:
\* line 209; the chart is unmounted while forecast.data is null.  The button
\* is there after the render that follows setForecast
ClickFetchForecast ==
  /\ pc \in {"idle", "settled", "rendered"}
  /\ ~forecastState.loading
  /\ forecastState' = LoadingForecast
  /\ apiData' = Null
  /\ history' = <<>>
  /\ pending_weeks' = <<>>
  /\ forecast' = <<>>
  /\ rows' = <<>>
  /\ allRows' = <<>>
  /\ compactRows' = <<>>
  /\ pc' = "awaiting"
  /\ UNCHANGED <<historyWindow, forecastWindow, idx, requestVars>>

\* the render after setForecast: with forecast.data set, ForecastChart is
\* rendered with data = forecast.data and the default windows (lines 470 and
\* 568-572), the whole memo body; without data the chart stays unmounted
RenderChart ==
  IF IsNull(forecastState'.data)
  THEN /\ pc' = "settled"
       /\ UNCHANGED <<history, pending_weeks, forecast, rows, allRows, compactRows>>
  ELSE /\ history' = forecastState'.data.history
       /\ pending_weeks' = forecastState'.data.pending_weeks
       /\ forecast' = forecastState'.data.forecast
       /\ rows' = MergeRows(history', pending_weeks', forecast')
       /\ allRows' = rows'
       /\ compactRows' = CompactRows(rows', DEFAULT_HISTORY_WINDOW, DEFAULT_FORECAST_WINDOW)
       /\ pc' = "rendered"

\* the promise of fetch() settles (lines 215-236): it rejects, or the status
\* is not ok and line 233 throws, and the catch runs in the same task; or the
\* status is ok and fetchForecast awaits response.json()
ResolvePredict ==
  /\ pc = "awaiting"
  /\ \/ /\ \E response \in {[kind |-> "network_error"], [kind |-> "http_error"]} :
             apiData' = response
        /\ forecastState' = FetchForecastOutcome(apiData', district)
        /\ RenderChart
     \/ /\ pc' = "reading"
        /\ UNCHANGED <<apiData, forecastState, history, pending_weeks, forecast,
                       rows, allRows, compactRows>>
  /\ UNCHANGED <<historyWindow, forecastWindow, idx, requestVars>>

\* the promise of response.json() settles (lines 236-284): it rejects, or it
\* resolves to the body and the transformed data are set; then the render
SettlePredict ==
  /\ pc = "reading"
  /\ \/ \E response \in {[kind |-> "not_json"], JsonResponse(Null)} :
          apiData' = response
     \/ \E h \in Collections(RawHistoryItems, MaxItems) :
          \E f \in Collections(RawForecastItems, MaxItems - ItemCount(h)) :
            \E p \in Collections(RawPendingItems, MaxItems - ItemCount(h) - ItemCount(f)) :
              apiData' = JsonResponse(ObjectBody(h, f, p))
  /\ forecastState' = FetchForecastOutcome(apiData', district)
  /\ RenderChart
  /\ UNCHANGED <<historyWindow, forecastWindow, idx, requestVars>>

BoundaryNext ==
  \/ ClickFetchForecast
  \/ ResolvePredict
  \/ SettlePredict

BoundarySpec == BoundaryInit /\ [][BoundaryNext]_vars

(***************************************************************************)
(* The detail panel with its requests in flight (DistrictDetailPanel.tsx). *)
(* A handler runs up to its await in one step; the continuation after an   *)
(* await runs in one step, up to the next await, when the awaited promise  *)
(* (of fetch() or of the body read) settles.  The continuation of          *)
(* handleManualSubmit calls fetchManualObservations and fetchForecast of   *)
(* the render in which the submit was clicked, so a request carries the    *)
(* district and the URL of that closure.                                   *)
(***************************************************************************)
MaxTriggers == 3        \* number of user events in a behaviour

Districts == {"d1", "d2"}
ApiUrls == {"", "u1"}

\* a request; trigger is the number of the user event whose handler (or
\* effect) issued it, origin the kind of that event.  Its caller awaits the
\* promise of fetch() (phase "fetch") and then, for the list and the predict
\* request, the promise of the body read (phase "body")
NewRequest(id, endpoint, d, url, origin, trigger) ==
  [id |-> id, endpoint |-> endpoint, district |-> d, url |-> url,
   origin |-> origin, trigger |-> trigger, phase |-> "fetch"]

LogEntry(endpoint, trigger) == [endpoint |-> endpoint, trigger |-> trigger]

\* the requests to one endpoint whose caller has not finished with them
InFlight(endpoint) == {r \in requests : r.endpoint = endpoint}

\* the requests to one endpoint whose fetch() promise is pending
AwaitingFetch(endpoint) == {r \in InFlight(endpoint) : r.phase = "fetch"}

\* the requests to one endpoint whose response arrived and whose body read
\* (response.text() at line 163, response.json() at line 236) is pending
AwaitingBody(endpoint) == {r \in InFlight(endpoint) : r.phase = "body"}

\* fetch() of req resolved to a response and the caller awaits its body
WithBodyPending(reqs, req) ==
  (reqs \ {req}) \cup {[req EXCEPT !.phase = "body"]}

\* a well-formed predict body without points
EmptyBody == ObjectBody(ArrayOf(<<>>), ArrayOf(<<>>), ArrayOf(<<>>))

\* how a predict request of the panel settles
PanelPredictResponses == FailedResponses \cup {JsonResponse(EmptyBody)}

\* the records the API holds for district d
ObservationsOf(d) == <<[district_id |-> d]>>

\* how GET /observations/<d> settles; "not_json" is a content type other than
\* application/json or a text JSON.parse rejects
ListResponses(d) ==
  FailedResponses \cup
    {JsonResponse(Null),
     JsonResponse([t |-> "object", records |-> Undefined]),
     JsonResponse([t |-> "object", records |-> ArrayOf(ObservationsOf(d))])}

\* the try block of fetchManualObservations throws (lines 162-177)
ListThrows(response) == response.kind # "json" \/ IsNull(response.body)

\* Array.isArray(payload.records) ? payload.records : [] (line 177)
ListRecords(response) ==
  IF IsArray(response.body.records) THEN response.body.records.items ELSE <<>>

\* how POST /observations settles
PostResponses == {[kind |-> "network_error"], [kind |-> "http_error"], [kind |-> "ok"]}

\* the requests in flight after one has settled and its failure, if any, was
\* answered by sending it again
RequestsAfterSettleResending(reqs, req, response) ==
  IF response.kind \in {"network_error", "http_error", "not_json"}
  THEN reqs
  ELSE reqs \ {req}

\* the requests in flight after req has settled: the catch blocks (lines
\* 179-181, 278-284, 370-372) start no request
RequestsAfterSettle(reqs, req, response) == reqs \ {req}

\* fetchManualObservations up to its await (lines 154-162), called with the
\* district and URL of its closure while the requests reqs are in flight
FetchManualObservations(reqs, d, url, origin, trigger) ==
  IF d = "none" \/ url = ""
  THEN /\ manualObservations' = <<>>
       /\ requests' = reqs
       /\ UNCHANGED <<requestLog, issued, observationsLoading, observationsError>>
  ELSE /\ observationsLoading' = TRUE
       /\ observationsError' = Null
       /\ requests' = reqs \cup {NewRequest(issued + 1, "list", d, url, origin, trigger)}
       /\ requestLog' = requestLog \cup {LogEntry("list", trigger)}
       /\ issued' = issued + 1
       /\ UNCHANGED manualObservations

\* fetchForecast up to its await (lines 197-215)
FetchForecast(reqs, d, url, origin, trigger) ==
  IF url = ""
  THEN /\ forecastState' = FailedForecast("no API URL")
       /\ requests' = reqs
       /\ UNCHANGED requestLog
       /\ issued' = issued + 1
       /\ forecastWriter' = issued + 1
       /\ lastPredict' = issued + 1
  ELSE IF d = "none"
  THEN /\ requests' = reqs
       /\ UNCHANGED <<requestLog, forecastState, issued, forecastWriter, lastPredict>>
  ELSE /\ forecastState' = LoadingForecast
       /\ requests' = reqs \cup {NewRequest(issued + 1, "predict", d, url, origin, trigger)}
       /\ requestLog' = requestLog \cup {LogEntry("predict", trigger)}
       /\ issued' = issued + 1
       /\ forecastWriter' = issued + 1
       /\ lastPredict' = issued + 1

Settlement(req, response) == [t |-> "settled", request |-> req, response |-> response]

PanelInit ==
  /\ history = <<>>
  /\ pending_weeks = <<>>
  /\ forecast = <<>>
  /\ historyWindow = DEFAULT_HISTORY_WINDOW
  /\ forecastWindow = DEFAULT_FORECAST_WINDOW
  /\ rows = <<>>
  /\ idx = 1
  /\ allRows = <<>>
  /\ compactRows = <<>>
  /\ pc = "panel"
  /\ apiData = Null
  /\ forecastState = [loading |-> FALSE, error |-> Null, data |-> Null]
  /\ \E url \in ApiUrls : PanelAtRest("none", url)

\* a marker of the map is clicked (MapView.tsx line 67): the effects of lines
\* 186-188 and 190-195 run with the new district
SelectDistrict ==
  /\ pc = "panel"
  /\ triggers < MaxTriggers
  /\ \E d \in Districts \ {district} :
       /\ district' = d
       /\ FetchManualObservations(requests, d, apiBaseUrl, "effect", triggers + 1)
  /\ manualSubmitMessage' = Null
  /\ manualSubmitError' = Null
  /\ manualRowsReady' = FALSE
  /\ triggers' = triggers + 1
  /\ UNCHANGED <<chartVars, panelVars, apiBaseUrl, settled, forecastWriter,
                 lastPredict, manualSubmitting>>

\* a new URL is saved (ApiConfigBar.tsx lines 12-15, part_000 lines 9-12): the
\* effect of lines 186-188 runs with the new URL
SaveApiUrl ==
  /\ pc = "panel"
  /\ triggers < MaxTriggers
  /\ \E url \in ApiUrls \ {apiBaseUrl} :
       /\ apiBaseUrl' = url
       /\ FetchManualObservations(requests, district, url, "effect", triggers + 1)
  /\ triggers' = triggers + 1
  /\ UNCHANGED <<chartVars, panelVars, district, settled, forecastWriter,
                 lastPredict, manualSubmitting, manualSubmitMessage,
                 manualSubmitError, manualRowsReady>>

\* the fetch-forecast button (lines 429-430, disabled while forecast.loading)
FetchForecastClick ==
  /\ pc = "panel"
  /\ triggers < MaxTriggers
  /\ district # "none"
  /\ ~forecastState.loading
  /\ FetchForecast(requests, district, apiBaseUrl, "click", triggers + 1)
  /\ triggers' = triggers + 1
  /\ UNCHANGED <<chartVars, apiData, district, apiBaseUrl, settled,
                 observationsLoading, observationsError, manualObservations,
                 manualSubmitting, manualSubmitMessage, manualSubmitError,
                 manualRowsReady>>

\* the refresh button of the observation list (lines 630-631, disabled while
\* observationsLoading)
RefreshObservationsClick ==
  /\ pc = "panel"
  /\ triggers < MaxTriggers
  /\ district # "none"
  /\ ~observationsLoading
  /\ FetchManualObservations(requests, district, apiBaseUrl, "click", triggers + 1)
  /\ triggers' = triggers + 1
  /\ UNCHANGED <<chartVars, panelVars, district, apiBaseUrl, settled,
                 forecastWriter, lastPredict, manualSubmitting,
                 manualSubmitMessage, manualSubmitError, manualRowsReady>>

\* a row of the entry form is edited (lines 134-152): the feedback is reset
\* and the rows are ready for a submit or not
UpdateManualRow ==
  /\ pc = "panel"
  /\ district # "none"
  /\ \E ready \in BOOLEAN : manualRowsReady' = ready
  /\ manualSubmitMessage' = Null
  /\ manualSubmitError' = Null
  /\ UNCHANGED <<chartVars, panelVars, district, apiBaseUrl, requests,
                 requestLog, issued, triggers, settled, forecastWriter, lastPredict,
                 observationsLoading, observationsError, manualObservations,
                 manualSubmitting>>

\* handleManualSubmit without the reset of the error before the request
\* (line 347)
ManualSubmitClickKeepsError ==
  /\ pc = "panel"
  /\ triggers < MaxTriggers
  /\ district # "none"
  /\ ~manualSubmitting
  /\ manualRowsReady
  /\ IF apiBaseUrl = ""
     THEN /\ manualSubmitError' = Str("no API URL")
          /\ UNCHANGED <<requests, requestLog, issued, manualSubmitting,
                         manualSubmitMessage>>
     ELSE /\ manualSubmitting' = TRUE
          /\ manualSubmitMessage' = Null
          /\ UNCHANGED manualSubmitError
          /\ requests' = requests \cup
               {NewRequest(issued + 1, "post", district, apiBaseUrl, "submit",
                           triggers + 1)}
          /\ requestLog' = requestLog \cup {LogEntry("post", triggers + 1)}
          /\ issued' = issued + 1
  /\ triggers' = triggers + 1
  /\ UNCHANGED <<chartVars, panelVars, district, apiBaseUrl, settled,
                 forecastWriter, lastPredict, observationsLoading,
                 observationsError, manualObservations, manualRowsReady>>

\* the submit button (lines 747-748, disabled by manualSubmitDisabled):
\* handleManualSubmit up to its await (lines 319-351)
ManualSubmitClick ==
  /\ pc = "panel"
  /\ triggers < MaxTriggers
  /\ district # "none"
  /\ ~manualSubmitting
  /\ manualRowsReady
  /\ IF apiBaseUrl = ""
     THEN /\ manualSubmitError' = Str("no API URL")
          /\ UNCHANGED <<requests, requestLog, issued, manualSubmitting,
                         manualSubmitMessage>>
     ELSE /\ manualSubmitting' = TRUE
          /\ manualSubmitError' = Null
          /\ manualSubmitMessage' = Null
          /\ requests' = requests \cup
               {NewRequest(issued + 1, "post", district, apiBaseUrl, "submit",
                           triggers + 1)}
          /\ requestLog' = requestLog \cup {LogEntry("post", triggers + 1)}
          /\ issued' = issued + 1
  /\ triggers' = triggers + 1
  /\ UNCHANGED <<chartVars, panelVars, district, apiBaseUrl, settled,
                 forecastWriter, lastPredict, observationsLoading,
                 observationsError, manualObservations, manualRowsReady>>

\* handleManualSubmit refreshing the observation list (and the forecast after
\* it) in the failure path as well
SettlePostRefreshesOnFailure ==
  /\ pc = "panel"
  /\ \E req \in InFlight("post"), response \in PostResponses :
       /\ settled' = Settlement(req, response)
       /\ IF response.kind = "ok"
          THEN /\ manualSubmitMessage' = Str("saved")
               /\ manualRowsReady' = FALSE
               /\ UNCHANGED <<manualSubmitting, manualSubmitError>>
          ELSE /\ manualSubmitError' = Str("API error")
               /\ UNCHANGED <<manualSubmitting, manualSubmitMessage, manualRowsReady>>
       /\ FetchManualObservations(RequestsAfterSettle(requests, req, response),
                                  req.district, req.url, "submit", req.trigger)
  /\ UNCHANGED <<chartVars, panelVars, district, apiBaseUrl, triggers,
                 forecastWriter, lastPredict>>

\* POST /observations settles: handleManualSubmit after its await (lines
\* 362-374) up to the await inside fetchManualObservations
SettlePost ==
  /\ pc = "panel"
  /\ \E req \in InFlight("post"), response \in PostResponses :
       /\ settled' = Settlement(req, response)
       /\ IF response.kind = "ok"
          THEN /\ manualSubmitMessage' = Str("saved")
               /\ manualRowsReady' = FALSE
               /\ FetchManualObservations(RequestsAfterSettle(requests, req, response),
                                          req.district, req.url, "submit", req.trigger)
               /\ UNCHANGED <<manualSubmitting, manualSubmitError>>
          ELSE /\ manualSubmitError' = Str("API error")
               /\ manualSubmitting' = FALSE
               /\ requests' = RequestsAfterSettle(requests, req, response)
               /\ UNCHANGED <<requestLog, issued, observationsLoading,
                              observationsError, manualObservations,
                              manualSubmitMessage, manualRowsReady>>
  /\ UNCHANGED <<chartVars, panelVars, district, apiBaseUrl, triggers,
                 forecastWriter, lastPredict>>

\* fetchManualObservations after the body read of req, or after fetch()
\* rejected (lines 164-183); a call awaited by handleManualSubmit goes on with
\* fetchForecast up to its await (line 369)
ListContinuation(req, response) ==
  /\ settled' = Settlement(req, response)
  /\ IF ListThrows(response)
     THEN /\ observationsError' = Str("API error")
          /\ UNCHANGED manualObservations
     ELSE /\ manualObservations' = ListRecords(response)
          /\ UNCHANGED observationsError
  /\ observationsLoading' = FALSE
  /\ IF req.origin = "submit"
     THEN FetchForecast(RequestsAfterSettle(requests, req, response),
                        req.district, req.url, "submit", req.trigger)
     ELSE /\ requests' = RequestsAfterSettle(requests, req, response)
          /\ UNCHANGED <<requestLog, forecastState, issued, forecastWriter,
                         lastPredict>>

\* the promise of fetch() of GET /observations/<d> settles (line 162): it
\* rejects and the catch runs, or it resolves, whatever the status, and
\* fetchManualObservations awaits response.text() (line 163)
ResolveListFetch ==
  /\ pc = "panel"
  /\ \E req \in AwaitingFetch("list") :
       \/ ListContinuation(req, [kind |-> "network_error"])
       \/ /\ requests' = WithBodyPending(requests, req)
          /\ UNCHANGED <<settled, observationsError, manualObservations,
                         observationsLoading, requestLog, forecastState, issued,
                         forecastWriter, lastPredict>>
  /\ UNCHANGED <<chartVars, apiData, district, apiBaseUrl, triggers,
                 manualSubmitting, manualSubmitMessage, manualSubmitError,
                 manualRowsReady>>

\* how response.text() of req settles: it rejects when the connection
\* breaks; or the text arrives and the status, read at line 164, is not ok,
\* or the text is no JSON, or it is parsed
ListBodies(req) == ListResponses(req.district)

\* the promise of response.text() settles (lines 163-183): the body of the
\* list response arrived
SettleList ==
  /\ pc = "panel"
  /\ \E req \in AwaitingBody("list") :
       \E response \in ListBodies(req) : ListContinuation(req, response)
  /\ UNCHANGED <<chartVars, apiData, district, apiBaseUrl, triggers,
                 manualSubmitting, manualSubmitMessage, manualSubmitError,
                 manualRowsReady>>

\* fetchForecast after the body read of req, or after fetch() rejected or
\* resolved to a status that is not ok (lines 232-284); a call awaited by
\* handleManualSubmit ends the submit (lines 372-374)
PredictContinuation(req, response) ==
  /\ settled' = Settlement(req, response)
  /\ apiData' = response
  /\ forecastState' = FetchForecastOutcome(response, req.district)
  /\ forecastWriter' = req.id
  /\ requests' = RequestsAfterSettle(requests, req, response)
  /\ manualSubmitting' = IF req.origin = "submit" THEN FALSE ELSE manualSubmitting

\* the promise of fetch() of POST /predict settles (lines 215-236): it
\* rejects, or the status is not ok and line 233 throws, and the catch runs
\* in the same task; or the status is ok and fetchForecast awaits
\* response.json()
ResolvePredictRequest ==
  /\ pc = "panel"
  /\ \E req \in AwaitingFetch("predict") :
       \/ \E response \in {[kind |-> "network_error"], [kind |-> "http_error"]} :
            PredictContinuation(req, response)
       \/ /\ requests' = WithBodyPending(requests, req)
          /\ UNCHANGED <<settled, apiData, forecastState, forecastWriter,
                         manualSubmitting>>
  /\ UNCHANGED <<chartVars, district, apiBaseUrl, requestLog, issued, triggers,
                 lastPredict, observationsLoading, observationsError, manualObservations,
                 manualSubmitMessage, manualSubmitError, manualRowsReady>>

\* the promise of response.json() settles (lines 236-284): it rejects, or it
\* resolves to the body
SettlePredictRequest ==
  /\ pc = "panel"
  /\ \E req \in AwaitingBody("predict") :
       \E response \in {r \in PanelPredictResponses : r.kind \in {"not_json", "json"}} :
         PredictContinuation(req, response)
  /\ UNCHANGED <<chartVars, district, apiBaseUrl, requestLog, issued, triggers,
                 lastPredict, observationsLoading, observationsError, manualObservations,
                 manualSubmitMessage, manualSubmitError, manualRowsReady>>

PanelNext ==
  \/ SelectDistrict
  \/ SaveApiUrl
  \/ FetchForecastClick
  \/ RefreshObservationsClick
  \/ UpdateManualRow
  \/ ManualSubmitClick
  \/ SettlePost
  \/ ResolveListFetch
  \/ SettleList
  \/ ResolvePredictRequest
  \/ SettlePredictRequest

PanelSpec == PanelInit /\ [][PanelNext]_vars

(***************************************************************************)
(* Vocabulary of the properties.                                           *)
(***************************************************************************)
Done == pc = "done"

MinOf2(a, b) == IF a <= b THEN a ELSE b

MaxOf(S) == CHOOSE x \in S : \A y \in S : y <= x

\* the date keys of the three input collections
InputDates ==
  {history[i].ds : i \in 1..Len(history)}
    \cup {pending_weeks[i].ds : i \in 1..Len(pending_weeks)}
    \cup {forecast[i].ds : i \in 1..Len(forecast)}

RowDates(rs) == {rs[i].date : i \in 1..Len(rs)}

RowOf(rs, d) == rs[RowIndex(rs, d)]

\* positions of the observed / manual history points of date key d
ActualHistoryIdx(d) ==
  {i \in 1..Len(history) :
     history[i].ds = d /\ history[i].source \in {"observed", "manual"}}

\* positions of the synthetic / seasonal_clone history points of date key d
FillHistoryIdx(d) ==
  {i \in 1..Len(history) :
     history[i].ds = d /\ history[i].source \in {"synthetic", "seasonal_clone"}}

PendingIdx(d) == {i \in 1..Len(pending_weeks) : pending_weeks[i].ds = d}

ForecastIdx(d) == {i \in 1..Len(forecast) : forecast[i].ds = d}

\* first non-null of actualReal, filledValue, forecastValue
BestValue(row) == Coalesce(row.actualReal, Coalesce(row.filledValue, row.forecastValue))

Reorderings(seq) ==
  {[i \in 1..Len(seq) |-> seq[f[i]]] :
     f \in {g \in [1..Len(seq) -> 1..Len(seq)] :
              \A a, b \in 1..Len(seq) : a # b => g[a] # g[b]}}

AnchorRows(rs) == SelectSeq(rs, IsTimelineRow)

\* the time of the last anchor row of the full sequence
LastAnchorTime == DateTime(AnchorRows(allRows)[Len(AnchorRows(allRows))].date)

IsAfterLastAnchor(row) == DateTime(row.date) > LastAnchorTime

IsForecastAfterLastAnchor(row) ==
  DateTime(row.date) > LastAnchorTime /\ ~IsNull(row.forecastValue)

(***************************************************************************)
(* C1: the merged rows are strictly ascending by calendar date and their   *)
(* dates are exactly the dates of the three inputs, one row per date.      *)
(***************************************************************************)
C1_StrictlyAscendingOneRowPerDate ==
  Done =>
    /\ \A i \in 1..(Len(allRows) - 1) :
         DateTime(allRows[i].date) < DateTime(allRows[i + 1].date)
    /\ RowDates(allRows) = InputDates
    /\ Cardinality({DateTime(d) : d \in InputDates}) = Len(allRows)

(***************************************************************************)
(* C2: on a date key with an observed or manual history point and a        *)
(* forecast point carrying a finite actual, the row's actualReal and       *)
(* actualSource are those of the (last written) observed / manual history  *)
(* point; the forecast's actual never replaces them.                       *)
(***************************************************************************)
C2_HistoryActualWinsOverForecastActual ==
  Done =>
    \A d \in DateStrings :
      (/\ ActualHistoryIdx(d) # {}
       /\ \E j \in ForecastIdx(d) : IsFiniteNumber(forecast[j].actual))
      => LET hp == history[MaxOf(ActualHistoryIdx(d))]
         IN  /\ RowOf(allRows, d).actualReal = hp.y
             /\ RowOf(allRows, d).actualSource = hp.source

C2_Witness ==
  /\ Done
  /\ \E d \in DateStrings :
       /\ ActualHistoryIdx(d) # {}
       /\ \E j \in ForecastIdx(d) :
            /\ IsFiniteNumber(forecast[j].actual)
            /\ forecast[j].actual # history[MaxOf(ActualHistoryIdx(d))].y
       /\ RowOf(allRows, d).hasForecast

(***************************************************************************)
(* C3: every row with actualSource manual and a non-null actualReal V has  *)
(* manualConnector = V and filledLineValue = null.                         *)
(***************************************************************************)
C3_ManualRowConnectorAndFillLine ==
  Done =>
    \A i \in 1..Len(allRows) :
      (allRows[i].actualSource = "manual" /\ ~IsNull(allRows[i].actualReal))
      => /\ allRows[i].manualConnector = allRows[i].actualReal
         /\ IsNull(allRows[i].filledLineValue)

\* two adjacent manual rows, one of them with a fill value of its own
C3_Witness ==
  /\ Done
  /\ \E i \in 1..(Len(allRows) - 1) :
       /\ allRows[i].actualSource = "manual"
       /\ allRows[i + 1].actualSource = "manual"
       /\ \/ ~IsNull(allRows[i].filledValue)
          \/ ~IsNull(allRows[i + 1].filledValue)

(***************************************************************************)
(* C4: for every manual row at index i, each existing neighbour at i-1 and *)
(* i+1 has manualConnector equal to its own first non-null value in the    *)
(* order actualReal, filledValue, forecastValue.                           *)
(***************************************************************************)
C4_NeighbourConnectorIsBestValue ==
  Done =>
    \A i \in 1..Len(allRows) :
      allRows[i].actualSource = "manual"
      => \A j \in {i - 1, i + 1} \cap (1..Len(allRows)) :
           allRows[j].manualConnector = BestValue(allRows[j])

\* a manual row between two rows that are not manual: one holds an actual
\* value, the other has none and is linked through its fill or forecast
C4_Witness ==
  /\ Done
  /\ \E i \in 2..(Len(allRows) - 1) :
       /\ allRows[i].actualSource = "manual"
       /\ \E j, k \in {i - 1, i + 1} :
            /\ allRows[j].actualSource = "observed"
            /\ allRows[k].actualSource = "undefined"
            /\ ~IsNull(allRows[k].manualConnector)

(***************************************************************************)
(* C5: a row with a non-null manualConnector is a manual row or sits at    *)
(* index i-1 or i+1 of a manual row.                                       *)
(***************************************************************************)
C5_ConnectorOnlyAtOrNextToManual ==
  Done =>
    \A i \in 1..Len(allRows) :
      ~IsNull(allRows[i].manualConnector)
      => \/ allRows[i].actualSource = "manual"
         \/ i > 1 /\ allRows[i - 1].actualSource = "manual"
         \/ i < Len(allRows) /\ allRows[i + 1].actualSource = "manual"

\* a manual row, its linked neighbour, and an observed row two steps away
\* that carries no connector
C5_Witness ==
  /\ Done
  /\ Len(allRows) >= 3
  /\ \E i, j, k \in 1..Len(allRows) :
       /\ allRows[i].actualSource = "manual"
       /\ j \in {i - 1, i + 1}
       /\ allRows[j].actualSource # "manual"
       /\ ~IsNull(allRows[j].manualConnector)
       /\ k \notin {i - 1, i, i + 1}
       /\ ~IsNull(allRows[k].actualReal)
       /\ IsNull(allRows[k].manualConnector)

(***************************************************************************)
(* C6: merging the same three collections with their elements in any other *)
(* array order yields the identical row sequence.                          *)
(***************************************************************************)
C6_MergeIsOrderIndependent ==
  Done =>
    \A h \in Reorderings(history) :
      \A p \in Reorderings(pending_weeks) :
        \A f \in Reorderings(forecast) :
          MergeRows(h, p, f) = allRows

(***************************************************************************)
(* C7: on a date key present in history as synthetic or seasonal_clone and *)
(* also in pending_weeks, the row carries the pending fill: filledValue is *)
(* the pending prediction, filledSource is pending, isPending is true, and *)
(* hasHistory stays true.                                                  *)
(***************************************************************************)
C7_PendingFillOverwritesHistoryFill ==
  Done =>
    \A d \in DateStrings :
      (FillHistoryIdx(d) # {} /\ PendingIdx(d) # {})
      => LET row == RowOf(allRows, d)
         IN  /\ row.filledValue = pending_weeks[MaxOf(PendingIdx(d))].prediction
             /\ row.filledSource = "pending"
             /\ row.isPending
             /\ row.hasHistory

C7_Witness ==
  /\ Done
  /\ \E d \in DateStrings :
       /\ FillHistoryIdx(d) # {}
       /\ PendingIdx(d) # {}
       /\ history[MaxOf(FillHistoryIdx(d))].y
            # pending_weeks[MaxOf(PendingIdx(d))].prediction

(***************************************************************************)
(* C8: on a date key with no observed or manual history point and exactly  *)
(* one forecast point: a finite actual of that point becomes the row's     *)
(* actualReal with actualSource observed; without a finite actual the row  *)
(* has hasForecast, forecastValue = y_pred and actualReal null.            *)
(***************************************************************************)
C8_ForecastActualBackfill ==
  Done =>
    \A d \in DateStrings :
      (ActualHistoryIdx(d) = {} /\ Cardinality(ForecastIdx(d)) = 1)
      => LET point == forecast[MaxOf(ForecastIdx(d))]
             row == RowOf(allRows, d)
         IN  IF IsFiniteNumber(point.actual)
             THEN /\ row.actualReal = point.actual
                  /\ row.actualSource = "observed"
             ELSE /\ row.hasForecast
                  /\ row.forecastValue = point.y_pred
                  /\ IsNull(row.actualReal)

\* one date backfilled from a finite actual, another whose forecast point
\* carries NaN, and a third whose row also has a fill from history
C8_Witness ==
  /\ Done
  /\ \E d, e \in DateStrings :
       /\ d # e
       /\ ActualHistoryIdx(d) = {} /\ Cardinality(ForecastIdx(d)) = 1
       /\ ActualHistoryIdx(e) = {} /\ Cardinality(ForecastIdx(e)) = 1
       /\ IsFiniteNumber(forecast[MaxOf(ForecastIdx(d))].actual)
       /\ forecast[MaxOf(ForecastIdx(e))].actual = NaN
       /\ FillHistoryIdx(d) # {}

(***************************************************************************)
(* C9: with k >= 1 anchor rows, the compact result contains exactly        *)
(* min(historyWindow, k) anchor rows, they are the latest anchor rows, and *)
(* the latest of them is the last anchor row of the full sequence.         *)
(***************************************************************************)
C9_CompactHoldsLatestAnchors ==
  (Done /\ Len(AnchorRows(allRows)) >= 1) =>
    LET anchors == AnchorRows(allRows)
        k == Len(anchors)
        n == MinOf2(historyWindow, k)
    IN  AnchorRows(compactRows) = SubSeq(anchors, k - n + 1, k)

(***************************************************************************)
(* C10: with at least one anchor row, the rows of the compact result dated *)
(* after the last anchor date are the first min(forecastWindow, t) of the  *)
(* t rows after that date that carry a forecastValue, in ascending order;  *)
(* none when forecastWindow = 0.                                           *)
(***************************************************************************)
C10_CompactForecastTail ==
  (Done /\ Len(AnchorRows(allRows)) >= 1) =>
    LET candidates == SelectSeq(allRows, IsForecastAfterLastAnchor)
        tail == SelectSeq(compactRows, IsAfterLastAnchor)
    IN  /\ tail = SubSeq(candidates, 1, MinOf2(forecastWindow, Len(candidates)))
        /\ forecastWindow = 0 => tail = <<>>

\* more forecast rows after the last anchor than the window admits
C10_Witness ==
  /\ Done
  /\ Len(AnchorRows(allRows)) >= 1
  /\ forecastWindow >= 1
  /\ Len(SelectSeq(allRows, IsForecastAfterLastAnchor)) > forecastWindow
  /\ Len(SelectSeq(compactRows, IsAfterLastAnchor)) = forecastWindow

(***************************************************************************)
(* C11: with at least one anchor row, the compact result is a contiguous   *)
(* slice of the full sequence: it begins at the window-start anchor row,   *)
(* runs through the last anchor row and is followed directly by the        *)
(* forecast tail; no row before the window start, no row twice, same order.*)
(***************************************************************************)
C11_CompactIsContiguousSlice ==
  (Done /\ Len(AnchorRows(allRows)) >= 1) =>
    LET anchors == AnchorRows(allRows)
        k == Len(anchors)
        n == MinOf2(historyWindow, k)
        first == RowIndex(allRows, anchors[k - n + 1].date)
        lastInWindow ==
          MaxOf({i \in 1..Len(allRows) : DateTime(allRows[i].date) <= LastAnchorTime})
        t == Len(SelectSeq(allRows, IsForecastAfterLastAnchor))
    IN  compactRows = SubSeq(allRows, first, lastInWindow + MinOf2(forecastWindow, t))

(***************************************************************************)
(* C12: for a non-empty merged row sequence the window selection returns a *)
(* non-empty sequence, whatever historyWindow > 0 and forecastWindow >= 0. *)
(***************************************************************************)
C12_CompactNeverEmpty ==
  (Done /\ Len(allRows) > 0) => Len(compactRows) > 0

\* forecast-only rows and no anchor, with a forecastWindow of 0
C12_Witness ==
  /\ Done
  /\ Len(allRows) >= 2
  /\ Len(AnchorRows(allRows)) = 0
  /\ forecastWindow = 0
  /\ historyWindow = 1

(***************************************************************************)
(* C13: when no merged row is an anchor row (this includes three empty     *)
(* collections), the compact result is the full row sequence, unchanged.   *)
(***************************************************************************)
C13_NoAnchorReturnsAllRows ==
  (Done /\ Len(AnchorRows(allRows)) = 0) => compactRows = allRows

\* three forecast-only rows, more than either window would admit
C13_Witness ==
  /\ Done
  /\ Len(AnchorRows(allRows)) = 0
  /\ Len(allRows) = 3
  /\ forecastWindow = 1
  /\ compactRows = allRows

\* the three collections empty
C13_EmptyInputs ==
  /\ Done
  /\ history = <<>> /\ pending_weeks = <<>> /\ forecast = <<>>
  /\ compactRows = <<>>

(***************************************************************************)
(* C20: the successor of every manual row with a non-null actualReal has   *)
(* filledLineValue null, whatever fill value the successor carries.        *)
(***************************************************************************)
C20_SuccessorFillLineCleared ==
  Done =>
    \A i \in 1..(Len(allRows) - 1) :
      (allRows[i].actualSource = "manual" /\ ~IsNull(allRows[i].actualReal))
      => IsNull(allRows[i + 1].filledLineValue)

\* the successor is not manual and carries a fill value
C20_Witness ==
  /\ Done
  /\ \E i \in 1..(Len(allRows) - 1) :
       /\ allRows[i].actualSource = "manual"
       /\ allRows[i + 1].actualSource # "manual"
       /\ ~IsNull(allRows[i + 1].filledValue)
       /\ ~IsNull(allRows[i + 1].manualConnector)


(***************************************************************************)
(* Vocabulary of the boundary properties.                                  *)
(***************************************************************************)
Rendered == pc = "rendered"

\* the numeric channels of a chart row
Channels(row) ==
  {row.actualReal, row.filledValue, row.filledLineValue, row.forecastValue,
   row.manualConnector}

\* the items of a collection of the response body (none when it is no array)
ItemsOf(c) == IF IsArray(c) THEN c.items ELSE <<>>

RawHistory == ItemsOf(apiData.body.history)
RawForecast == ItemsOf(apiData.body.forecast)
RawPending == ItemsOf(apiData.body.pending_weeks)

\* a JSON value that is a non-finite number or a string that is no number
IsInvalidNumeric(v) == v.t = "Infinity" \/ (v.t = "string" /\ v.s = "abc")

\* C17: for an accepted predict response, every numeric channel of every
\* chart row is a finite number or null (never NaN, never infinite).
C17_ChannelsFiniteOrNull ==
  Rendered =>
    \A i \in 1..Len(allRows) :
      \A v \in Channels(allRows[i]) : IsNull(v) \/ IsFiniteNumber(v)

\* an accepted response with an infinite case count and a string that is no
\* number as prediction, both on rows of the chart
C17_Witness ==
  /\ Rendered
  /\ \E i \in 1..Len(RawHistory) : RawHistory[i].cases = Infinity
  /\ \E i \in 1..Len(RawForecast) : RawForecast[i].prediction = Str("abc")
  /\ Len(allRows) = 2


\* the request has settled (apiData holds the response)
Settled == pc \in {"settled", "rendered"}

\* a body that is not JSON, or JSON of the wrong shape: no object, or an
\* object whose history, forecast or pending_weeks is absent or no array
IsMalformed(response) ==
  \/ response.kind = "not_json"
  \/ /\ response.kind = "json"
     /\ \/ IsNull(response.body)
        \/ ~IsArray(response.body.history)
        \/ ~IsArray(response.body.forecast)
        \/ ~IsArray(response.body.pending_weeks)

\* C16: a malformed predict response leaves the forecast state with an error
\* message and data null, and no chart rows are computed from it.
C16_MalformedResponseIsAnError ==
  (Settled /\ IsMalformed(apiData)) =>
    /\ ~IsNull(forecastState.error)
    /\ IsNull(forecastState.data)
    /\ ~Rendered

\* positions of the raw items of date key d, per channel they feed
RawActualIdx(d) ==
  {i \in 1..Len(RawHistory) :
     RawHistory[i].ds = d
       /\ SourceOrObserved(RawHistory[i].source) \in {"observed", "manual"}}

RawFillIdx(d) ==
  {i \in 1..Len(RawHistory) :
     RawHistory[i].ds = d
       /\ SourceOrObserved(RawHistory[i].source) \notin {"observed", "manual"}}

RawPendingIdx(d) == {i \in 1..Len(RawPending) : RawPending[i].ds = d}

RawForecastIdx(d) == {i \in 1..Len(RawForecast) : RawForecast[i].ds = d}

\* C18: a case count or prediction of the response that is non-finite or no
\* number puts no number into its channel: when every value offered to a
\* channel of a date is invalid, that channel of the date's row is null.
C18_InvalidValueContributesNothing ==
  Rendered =>
    \A d \in RowDates(allRows) :
      LET row == RowOf(allRows, d)
      IN  /\ ( /\ \A i \in RawActualIdx(d) : IsInvalidNumeric(RawHistory[i].cases)
               /\ \A i \in RawForecastIdx(d) : IsNull(ToNumeric(RawForecast[i].actual)) )
               => IsNull(row.actualReal)
          /\ ( /\ \A i \in RawFillIdx(d) : IsInvalidNumeric(RawHistory[i].cases)
               /\ \A i \in RawPendingIdx(d) : IsInvalidNumeric(RawPending[i].prediction) )
               => IsNull(row.filledValue)
          /\ ( \A i \in RawForecastIdx(d) : IsInvalidNumeric(RawForecast[i].prediction) )
               => IsNull(row.forecastValue)


(***************************************************************************)
(* Vocabulary of the panel properties.                                     *)
(***************************************************************************)
Endpoints == {"predict", "list", "post"}

InFlightIn(reqs, endpoint) == {r \in reqs : r.endpoint = endpoint}

\* a response that reports a failed request: fetch rejected, status not ok,
\* or a body that is not JSON
IsFailedResponse(response) == response.kind \in {"network_error", "http_error", "not_json"}

\* C14: at most one request per endpoint is in flight: no predict request is
\* started while an earlier one is unsettled, and likewise for the
\* list-observations requests.
C14_OneRequestInFlightPerEndpoint ==
  /\ Cardinality(InFlight("predict")) <= 1
  /\ Cardinality(InFlight("list")) <= 1

\* C15: once no predict request is in flight, the forecast state is the one
\* written by the fetchForecast invocation that was started last.
C15_LastStartedFetchWins ==
  (InFlight("predict") = {} /\ lastPredict > 0) => forecastWriter = lastPredict

\* the ids of a set of requests
Ids(reqs) == {r.id : r \in reqs}

\* the requests started in this step
Started == {r \in requests' : r.id \notin Ids(requests)}

\* C19 amended: a step starts at most one request per endpoint, and a triggering
\* event never has a second request to an endpoint issued on its behalf; the
\* step in which a request fails records the failure in the error state of
\* its endpoint, takes the request out of flight and starts no request to
\* that endpoint.
C19_SingleAttemptNoRetry ==
  [][ /\ \A ep \in Endpoints : Cardinality(InFlightIn(Started, ep)) <= 1
      /\ \A r \in Started :
           LogEntry(r.endpoint, r.trigger) \notin requestLog
      /\ (settled' # settled /\ IsFailedResponse(settled'.response)) =>
           LET req == settled'.request
           IN  /\ req.id \notin Ids(requests')
               /\ InFlightIn(Started, req.endpoint) = {}
               /\ req.endpoint = "predict" => ~IsNull(forecastState'.error)
               /\ req.endpoint = "list" => ~IsNull(observationsError')
               /\ req.endpoint = "post" => ~IsNull(manualSubmitError')
    ]_vars

\* C19 as stated: besides the above, after a request has failed no request
\* to its endpoint is started before the next triggering event.  Stated for
\* the failure of a request of the latest triggering event, when it is the
\* last settlement: a step that starts a request to that endpoint is a
\* triggering event.
C19_NoRequestAfterFailureBeforeNextEvent ==
  [][ /\ \A ep \in Endpoints : Cardinality(InFlightIn(Started, ep)) <= 1
      /\ \A r \in Started :
           /\ LogEntry(r.endpoint, r.trigger) \notin requestLog
           /\ ( /\ ~IsNull(settled)
                /\ IsFailedResponse(settled.response)
                /\ settled.request.endpoint = r.endpoint
                /\ settled.request.trigger = triggers )
                => triggers' = triggers + 1
    ]_vars

\* a list request started by the effect has failed, a predict request
\* started by a click has failed after it, both errors are shown and nothing
\* is in flight
C19_Witness ==
  /\ ~IsNull(settled)
  /\ settled.request.endpoint = "predict"
  /\ settled.request.origin = "click"
  /\ settled.response.kind = "http_error"
  /\ ~IsNull(forecastState.error)
  /\ ~IsNull(observationsError)
  /\ requests = {}

(***************************************************************************)
(* Properties of the connector pass and of the rows it leaves.             *)
(***************************************************************************)
\* C21 as stated: the predecessor of a manual row, when it is no manual row
\* itself, ends the pass with filledLineValue equal to its filledValue.
C21_PredecessorFillLineIntact ==
  Done =>
    \A i \in 2..Len(allRows) :
      (IsManualRow(allRows[i]) /\ ~IsManualRow(allRows[i - 1]))
        => allRows[i - 1].filledLineValue = allRows[i - 1].filledValue

\* C21 amended: the predecessor of a manual row, when it is no manual row
\* itself and not the successor of another manual row, ends the pass with
\* filledLineValue equal to its filledValue.
C21_PredecessorFillLineIntactUnlessSuccessor ==
  Done =>
    \A i \in 2..Len(allRows) :
      ( /\ IsManualRow(allRows[i])
        /\ ~IsManualRow(allRows[i - 1])
        /\ ~(i >= 3 /\ IsManualRow(allRows[i - 2])) )
        => allRows[i - 1].filledLineValue = allRows[i - 1].filledValue

\* a manual row whose predecessor carries a fill value, was linked by the
\* manual row and still has its fill line
C21_Witness ==
  /\ Done
  /\ \E i \in 2..Len(allRows) :
       /\ IsManualRow(allRows[i])
       /\ ~IsManualRow(allRows[i - 1])
       /\ ~IsNull(allRows[i - 1].filledValue)
       /\ allRows[i - 1].manualConnector = allRows[i - 1].filledValue
       /\ allRows[i - 1].filledLineValue = allRows[i - 1].filledValue

\* C22: during the scan, a manualConnector that is non-null is not changed by
\* any later iteration of the scan.
C22_ConnectorNeverRewritten ==
  [][ pc = "connect" =>
        \A i \in 1..Len(rows) :
          ~IsNull(rows[i].manualConnector)
            => rows'[i].manualConnector = rows[i].manualConnector ]_vars

\* the scan has visited three rows: two manual rows around a row that is not
\* manual and was linked by the first of them
C22_Witness ==
  /\ pc = "connect"
  /\ idx = 4
  /\ Len(rows) = 3
  /\ IsManualRow(rows[1])
  /\ ~IsManualRow(rows[2])
  /\ IsManualRow(rows[3])
  /\ ~IsNull(rows[2].manualConnector)

\* the scan has visited two adjacent manual rows: the second was linked by
\* the first and then wrote its own connector
C22_AdjacentManualRows ==
  /\ pc = "connect"
  /\ idx >= 3
  /\ IsManualRow(rows[1])
  /\ IsManualRow(rows[2])
  /\ ~IsNull(rows[2].forecastValue)

\* a row without the two fields the connector pass may write
RowFrame(row) == [row EXCEPT !.manualConnector = Null, !.filledLineValue = Null]

\* C23: an iteration of the connector scan changes nothing but
\* manualConnector and filledLineValue: the number and order of the rows and
\* every other field of every row stay as they are.
C23_ConnectorPassFrame ==
  [][ pc = "connect" =>
        /\ Len(rows') = Len(rows)
        /\ \A i \in 1..Len(rows) : RowFrame(rows'[i]) = RowFrame(rows[i]) ]_vars

\* the scan is over; it has cleared the fill line of a manual row that holds
\* a fill value, and has cleared the fill line of that row's successor
C23_Witness ==
  /\ pc = "connect"
  /\ idx > Len(rows)
  /\ \E i \in 1..(Len(rows) - 1) :
       /\ IsManualRow(rows[i])
       /\ ~IsNull(rows[i].filledValue)
       /\ IsNull(rows[i].filledLineValue)
       /\ ~IsNull(rows[i + 1].filledValue)
       /\ IsNull(rows[i + 1].filledLineValue)

\* C24: in the compact window every row that carries a manualConnector is a
\* manual row or an index neighbour, inside the compact window, of a manual
\* row.
C24_CompactConnectorHasItsManualRow ==
  Done =>
    \A j \in 1..Len(compactRows) :
      ~IsNull(compactRows[j].manualConnector) =>
        \/ IsManualRow(compactRows[j])
        \/ (j > 1 /\ IsManualRow(compactRows[j - 1]))
        \/ (j < Len(compactRows) /\ IsManualRow(compactRows[j + 1]))

\* C25: in every merged row filledLineValue is null or equal to filledValue,
\* and it is null exactly when filledValue is null, or the row is a manual
\* row, or the row is the index successor of a manual row.
C25_FillLineValueCharacterised ==
  Done =>
    \A i \in 1..Len(allRows) :
      LET row == allRows[i]
      IN  /\ IsNull(row.filledLineValue) \/ row.filledLineValue = row.filledValue
          /\ IsNull(row.filledLineValue) <=>
               \/ IsNull(row.filledValue)
               \/ IsManualRow(row)
               \/ (i > 1 /\ IsManualRow(allRows[i - 1]))

\* a manual row followed by a row whose fill line was cleared and by a row
\* whose fill line is its fill value
C25_Witness ==
  /\ Done
  /\ Len(allRows) = 3
  /\ IsManualRow(allRows[1])
  /\ ~IsNull(allRows[2].filledValue)
  /\ IsNull(allRows[2].filledLineValue)
  /\ ~IsNull(allRows[3].filledValue)
  /\ allRows[3].filledLineValue = allRows[3].filledValue

(***************************************************************************)
(* Properties of the panel state.                                          *)
(***************************************************************************)
\* C26: the forecast state holds at most one of loading, an error and data:
\* while loading, error and data are null; error and data are never both
\* non-null.
C26_ForecastStateExclusive ==
  /\ forecastState.loading => (IsNull(forecastState.error) /\ IsNull(forecastState.data))
  /\ IsNull(forecastState.error) \/ IsNull(forecastState.data)

\* a predict request has failed and a later fetch is loading
C26_Witness ==
  /\ forecastState.loading
  /\ ~IsNull(settled)
  /\ settled.request.endpoint = "predict"
  /\ IsFailedResponse(settled.response)
  /\ Cardinality(InFlight("predict")) = 1

\* the forecast data on display belongs to the selected district
ForecastDataOfSelectedDistrict ==
  ~IsNull(forecastState.data) => forecastState.data.district_id_txt_clean = district

\* the observation list on display was fetched for the selected district
ObservationsOfSelectedDistrict ==
  \A i \in 1..Len(manualObservations) : manualObservations[i].district_id = district

\* C27: with a district selected, the forecast data and the observation list
\* on display belong to that district.
C27_DisplayedDataOfSelectedDistrict ==
  district # "none" => (ForecastDataOfSelectedDistrict /\ ObservationsOfSelectedDistrict)

\* this step settles request req of the given endpoint
SettlesIn(endpoint) ==
  /\ settled' # settled
  /\ settled'.request.endpoint = endpoint

\* C28: a successful submit request starts a list request in the step in
\* which it settles, and the predict request of the submit is started in the
\* step in which that list request settles, never earlier; a failed submit
\* request starts nothing and leaves the entered rows as they are; no submit
\* request is sent unless a row is ready.
C28_SubmitChainOrder ==
  [][ /\ (SettlesIn("post") /\ settled'.response.kind = "ok") =>
           /\ \E r \in Started :
                r.endpoint = "list" /\ r.trigger = settled'.request.trigger
           /\ \A r \in Started : r.endpoint = "list"
      /\ (SettlesIn("post") /\ settled'.response.kind # "ok") =>
           /\ Started = {}
           /\ manualRowsReady' = manualRowsReady
      /\ (SettlesIn("list") /\ settled'.request.origin = "submit") =>
           \E r \in Started :
             r.endpoint = "predict" /\ r.trigger = settled'.request.trigger
      /\ \A r \in Started :
           /\ r.endpoint = "post" => manualRowsReady
           /\ (r.origin = "submit" /\ r.endpoint = "list") =>
                /\ SettlesIn("post")
                /\ settled'.response.kind = "ok"
                /\ settled'.request.trigger = r.trigger
           /\ (r.origin = "submit" /\ r.endpoint = "predict") =>
                /\ SettlesIn("list")
                /\ settled'.request.origin = "submit"
                /\ settled'.request.trigger = r.trigger
    ]_vars

\* a submit has run to its end: its submit, list and predict requests were
\* issued, the predict request settled last and nothing is in flight
C28_Witness ==
  /\ ~IsNull(settled)
  /\ settled.request.endpoint = "predict"
  /\ settled.request.origin = "submit"
  /\ \A ep \in Endpoints : LogEntry(ep, settled.request.trigger) \in requestLog
  /\ ~manualSubmitting
  /\ requests = {}


\* C29: the success message and the error of the manual submit are never
\* both set.
C29_SubmitFeedbackExclusive ==
  IsNull(manualSubmitMessage) \/ IsNull(manualSubmitError)

\* a submit succeeded after an earlier submit of the same form had failed:
\* the message is shown and the earlier error is gone
C29_Witness ==
  /\ ~IsNull(manualSubmitMessage)
  /\ IsNull(manualSubmitError)
  /\ ~IsNull(settled)
  /\ settled.request.endpoint = "post"
  /\ settled.response.kind = "ok"
  /\ \E t \in 1..(settled.request.trigger - 1) : LogEntry("post", t) \in requestLog


\* every request that was issued settles: the promise of fetch() resolves or
\* rejects and, where it resolved and the caller reads the body (lines 163,
\* 236), the promise of the body read resolves or rejects.  The panel sets
\* no timeout and aborts no request, so the code does not make this true: a
\* behaviour of the panel may leave a request or a body read pending for ever
EveryRequestSettles ==
  /\ WF_vars(SettlePost)
  /\ WF_vars(ResolveListFetch)
  /\ WF_vars(SettleList)
  /\ WF_vars(ResolvePredictRequest)
  /\ WF_vars(SettlePredictRequest)

\* C30: in a behaviour in which every issued request settles, the body of
\* its response included, each of the three loading flags (of the forecast,
\* of the observation list, of the manual submit) that is set is later
\* cleared.
C30_LoadingFlagsCleared ==
  EveryRequestSettles =>
    /\ forecastState.loading ~> ~forecastState.loading
    /\ observationsLoading ~> ~observationsLoading
    /\ manualSubmitting ~> ~manualSubmitting

\* a submit ran to its end with a failed predict request: the three flags
\* were set on the way and all are cleared
C30_Witness ==
  /\ ~IsNull(settled)
  /\ settled.request.endpoint = "predict"
  /\ settled.request.origin = "submit"
  /\ IsFailedResponse(settled.response)
  /\ ~forecastState.loading
  /\ ~observationsLoading
  /\ ~manualSubmitting

====
